---- MODULE Spec2Model ----
(***************************************************************************)
(* Model of the C++ equipment controller (src/src/cpp/equipment_controller *)
(* .cpp): the status state machine of EquipmentController, its Impl        *)
(* (status, lastError, statusCallback, hardware, statusMutex), the serial  *)
(* transport as far as the controller uses it, and the callers' threads.   *)
(*                                                                         *)
(* Every thread has a frame: the position (pc) inside the public operation *)
(* it is executing, the operation's locals and its return value.  A step   *)
(* of the model is one access to the shared Impl by one thread, so that    *)
(* the unlocked reads of status in start/stop/pause/resume/runTest/        *)
(* calibrate interleave with the locked writes of Impl::setStatus as they  *)
(* do in the program.  Strings that travel over the wire are sequences of  *)
(* lexemes (tokens and the separator ":").  The SerialInterface is also    *)
(* modelled on its own, with its descriptor and the loop of                *)
(* receiveResponse (SerialSpec).                                           *)
(***************************************************************************)
EXTENDS Integers, Sequences, FiniteSets, TLC

VARIABLES
    status,          \* Impl::status
    config,          \* Impl::config (its device_port)
    lastError,       \* Impl::lastError, as lexemes; <<>> is the empty string
    statusCallback,  \* Impl::statusCallback is non-empty
    hardware,        \* Impl::hardware: [present, connected, id, sent, unanswered];
                     \* id tells the objects the pointer has held apart
    statusMutex,     \* Impl::statusMutex: its owner, or Free
    frame,           \* per thread: pc, operation, locals, return value
    committed,       \* history: the status values written by setStatus, in order
    delivered,       \* history: the (status, message) pairs handed to the callback
    missed,          \* history: a status was written while no callback was registered
    recording,       \* committed and delivered are kept (they are left empty where
                     \* no property reads them: states would differ by their past alone)
    pairing,         \* the same for the transport's sent and unanswered
    budget,          \* calls the unscripted callers may still issue
    script,          \* the calls the main thread still has to make, in order;
                     \* <<>> when it calls whatever it likes
    now,             \* std::chrono::system_clock::now(), in ticks since the
                     \* controller was constructed
    serial,          \* a SerialInterface used on its own: its members, the
                     \* descriptors it holds open, and the call in progress
    cs               \* the C# EquipmentController: _status, _lastError, whether
                     \* _serialPort is open, the owner of _lock, and its callers

vars == <<status, config, lastError, statusCallback, hardware, statusMutex, frame,
          committed, delivered, missed, recording, pairing, budget, script, now, serial,
          cs>>

\* the controller, its callers and their clock
controllerVars ==
    <<status, config, lastError, statusCallback, hardware, statusMutex, frame,
      committed, delivered, missed, recording, pairing, budget, script, now>>

-----------------------------------------------------------------------------
(* Bounds *)

\* calls of initialize/start/stop/pause/resume/runTest/calibrate issued by
\* concurrent callers (Spec)
MaxCalls == 3

\* the same, for a single caller (SeqSpec)
SeqMaxCalls == 5

\* calls the threads beside the main thread make during the workflow
\* (WorkflowSpec)
MaxInterference == 1

Threads == {"t1", "t2"}
Main == "t1"
Free == "free"

-----------------------------------------------------------------------------
(* EquipmentStatus, include/equipment_controller.h *)

IDLE == "IDLE"
RUNNING == "RUNNING"
PAUSED == "PAUSED"
ERROR == "ERROR"
MAINTENANCE == "MAINTENANCE"

EquipmentStatus == {IDLE, RUNNING, PAUSED, ERROR, MAINTENANCE}

-----------------------------------------------------------------------------
(* Messages written to lastError and passed to setStatus *)

MsgCreateFailed == <<"Failed to create hardware interface">>
MsgConnectFailed_Empty(port) == <<>>
MsgConnectFailed(port) == <<"Failed to connect to device on port ", port>>
MsgStartRejected == <<"Equipment must be in IDLE or PAUSED state to start">>
MsgPauseRejected == <<"Equipment must be running to pause">>
MsgResumeRejected == <<"Equipment must be paused to resume">>
MsgCalibrateRejected == <<"Equipment must be idle for calibration">>

-----------------------------------------------------------------------------
(* The serial transport as the controller sees it *)

\* sent counts the commands written to the transport and unanswered lists, in
\* the order they were written, those whose reply has not been read yet
\* (both are kept where pairing is on)
NoHardware ==
    [present |-> FALSE, connected |-> FALSE, id |-> 0, sent |-> 0, unanswered |-> <<>>]

\* SerialInterface::SerialInterface: connected(false)
NewSerialInterface ==
    [present |-> TRUE, connected |-> FALSE, id |-> 0, sent |-> 0, unanswered |-> <<>>]

\* a factory that knows no interface type
createHardwareInterface_Unknown(interface_type) == NoHardware

\* createHardwareInterface: an object for "serial", nullptr otherwise
createHardwareInterface(interface_type) ==
    IF interface_type = "serial" THEN NewSerialInterface ELSE NoHardware

\* SerialInterface::isConnected
isConnected(hw) == hw.connected

\* Lines a device can answer with within the timeout, as lexemes; <<>> is
\* the empty string receiveResponse returns when no line arrived in time.
Responses ==
    { <<>>,
      <<"RESULT", ":", "4.98", ":", "V", ":", "PASS">>,
      <<"RESULT", ":", "4.98", ":", "V", ":", "FAIL">>,
      <<"RESULT", ":", "abc", ":", "V">>,
      <<"RESULT", ":", "abc", ":", "V", ":", "PASS">>,
      <<"CAL_OK">>,
      <<"STATUS", ":", "CAL_OK", ":", "OK">>,
      <<"CAL_FAIL">> }

\* a receiveResponse without timeout on a device that sends nothing: it
\* does not return
receiveResponse_NoTimeout(hw) == IF hw.connected THEN {} ELSE {<<>>}

\* SerialInterface::receiveResponse: "" when not connected, otherwise what
\* arrived before the timeout
receiveResponse(hw) == IF hw.connected THEN Responses ELSE {<<>>}

\* SerialInterface::sendCommand: false when not connected, otherwise whether
\* write() wrote the whole command
sendCommand(hw) == IF hw.connected THEN BOOLEAN ELSE {FALSE}

\* the process is killed by a fault
Fault == <<"SIGSEGV">>

\* the number the next command written to the transport gets
NextRequest == IF pairing THEN hardware.sent + 1 ELSE 0

\* the transport after write() has put one more command on the line
Written(hw) ==
    IF pairing
    THEN [hw EXCEPT !.sent = @ + 1, !.unanswered = Append(@, hw.sent + 1)]
    ELSE hw

\* read() hands over the first line in the descriptor's input queue
\* whatever command it answers: the line read on object obj answers one of
\* the commands not answered so far (the device may have skipped earlier
\* ones), and the commands after it are still to be answered
Replies(obj, response) ==
    IF \/ response \in {<<>>, Fault}
       \/ obj # hardware.id
       \/ ~pairing
       \/ hardware.unanswered = <<>>
    THEN {[to |-> 0, left |-> hardware.unanswered]}
    ELSE {[to |-> hardware.unanswered[k],
           left |-> SubSeq(hardware.unanswered, k + 1, Len(hardware.unanswered))] :
             k \in DOMAIN hardware.unanswered}

\* hardware->receiveResponse(timeout_ms) entered on the object obj: while
\* hardware still holds that object, what receiveResponse returns; when
\* initialize has replaced it meanwhile, the unique_ptr has deleted the
\* object (lines 46-48, 249) and the call runs on freed memory and a closed
\* descriptor: any line, no line, or a fault
receiveResponseOn(obj) ==
    IF obj = hardware.id THEN receiveResponse(hardware)
    ELSE Responses \cup {Fault}

-----------------------------------------------------------------------------
(* Thread frames *)

\* TestResult result: passed and measurement_value have no initial value;
\* <<>> is a measurement_value that was never assigned
NoResult ==
    [test_id |-> <<>>, device_id |-> "", passed |-> FALSE,
     measurement_value |-> <<>>, units |-> <<>>, timestamp |-> <<>>, notes |-> <<>>]

IdleFrame ==
    [pc |-> "idle", call |-> "none", seen |-> "none", ret |-> FALSE,
     value |-> <<>>, result |-> NoResult, device |-> "", params |-> <<>>,
     newStatus |-> "none", message |-> "", cont |-> "none",
     io |-> <<>>, wrote |-> <<>>, cbs |-> <<>>, obj |-> 0,
     request |-> 0, answers |-> 0]

\* every thread stopped where it was: the process has been killed
Aborted == [u \in Threads |-> [frame[u] EXCEPT !.pc = "fault"]]

\* a thread is between two calls
AtRest(t) == frame[t].pc \in {"idle", "done"}

\* the frame of a call of op that has read nothing yet
Fresh(op) == [IdleFrame EXCEPT !.call = op]

\* the frame of a call of op that has read status
Entered(op) == [Fresh(op) EXCEPT !.seen = status]

\* one call of the transport recorded in the frame
IoCall(fn, arg) == [fn |-> fn, arg |-> arg]

-----------------------------------------------------------------------------
(* Impl::setStatus(newStatus, message), lines 225-231 *)

\* the caller's frame on entering setStatus; cont says where the caller
\* goes on when setStatus has returned
CallSetStatus(f, newStatus, message, cont) ==
    [f EXCEPT !.pc = "lock", !.newStatus = newStatus, !.message = message,
              !.cont = cont]

\* setStatus entered without waiting for the mutex
SetStatusLock_NoWait(t) ==
    /\ frame[t].pc = "lock"
    /\ statusMutex' = t
    /\ frame' = [frame EXCEPT ![t].pc = "write"]
    /\ UNCHANGED <<now, serial, cs, status, config, lastError, statusCallback,
                   hardware, committed, delivered, missed, recording, pairing,
                   budget, script>>

\* std::lock_guard<std::mutex> lock(statusMutex): blocks while it is held
SetStatusLock(t) ==
    /\ frame[t].pc = "lock"
    /\ statusMutex = Free
    /\ statusMutex' = t
    /\ frame' = [frame EXCEPT ![t].pc = "write"]
    /\ UNCHANGED <<now, serial, cs, status, config, lastError, statusCallback,
                   hardware, committed, delivered, missed, recording, pairing,
                   budget, script>>

\* status = newStatus
SetStatusWrite(t) ==
    /\ frame[t].pc = "write"
    /\ status' = frame[t].newStatus
    /\ committed' = IF recording THEN Append(committed, frame[t].newStatus)
                    ELSE committed
    /\ missed' = (missed \/ ~statusCallback)
    /\ frame' = [frame EXCEPT ![t].pc = "notify",
                              ![t].wrote = Append(@, frame[t].newStatus)]
    /\ UNCHANGED <<now, serial, cs, config, lastError, statusCallback, hardware,
                   statusMutex, delivered, recording, pairing, budget, script>>

\* setStatus that never calls the callback
SetStatusNotify_Skip(t) ==
    /\ frame[t].pc = "notify"
    /\ frame' = [frame EXCEPT ![t].pc = "unlock"]
    /\ UNCHANGED <<now, serial, cs, status, config, lastError, statusCallback,
                   hardware, statusMutex, committed, delivered, missed,
                   recording, pairing, budget, script>>

\* a setStatus that takes a missing subscriber for a failure
SetStatusNotify_NeedsSubscriber(t) ==
    /\ frame[t].pc = "notify"
    /\ IF statusCallback
       THEN /\ delivered' =
                  IF recording
                  THEN Append(delivered, [status |-> status, message |-> frame[t].message])
                  ELSE delivered
            /\ frame' = [frame EXCEPT ![t].pc = "unlock",
                                      ![t].cbs = Append(@, status)]
            /\ UNCHANGED status
       ELSE /\ frame' = [frame EXCEPT ![t].pc = "unlock", ![t].cont = "return_false"]
            /\ status' = ERROR
            /\ UNCHANGED delivered
    /\ UNCHANGED <<now, serial, cs, config, lastError, statusCallback, hardware,
                   statusMutex, committed, missed, recording, pairing, budget,
                   script>>

\* if (statusCallback) statusCallback(status, message): the callback gets
\* the member status as it is now, not the parameter newStatus
SetStatusNotify(t) ==
    /\ frame[t].pc = "notify"
    /\ IF statusCallback
       THEN /\ delivered' =
                  IF recording
                  THEN Append(delivered, [status |-> status, message |-> frame[t].message])
                  ELSE delivered
            /\ frame' = [frame EXCEPT ![t].pc = "unlock",
                                      ![t].cbs = Append(@, status)]
       ELSE /\ frame' = [frame EXCEPT ![t].pc = "unlock"]
            /\ UNCHANGED delivered
    /\ UNCHANGED <<now, serial, cs, status, config, lastError, statusCallback,
                   hardware, statusMutex, committed, missed, recording, pairing,
                   budget, script>>

\* the caller's frame once setStatus has returned: "return true" and
\* "return false" end the call, any other continuation is the caller's
\* next position
AfterSetStatus(f) ==
    LET g == [f EXCEPT !.newStatus = "none", !.message = "", !.cont = "none",
                       !.device = "", !.params = <<>>]
    IN  CASE f.cont = "return_true" -> [g EXCEPT !.pc = "done", !.ret = TRUE]
          [] f.cont = "return_false" -> [g EXCEPT !.pc = "done", !.ret = FALSE]
          [] OTHER -> [g EXCEPT !.pc = f.cont]

\* a setStatus whose caller keeps the mutex when it returns
SetStatusUnlock_Keep(t) ==
    /\ frame[t].pc = "unlock"
    /\ frame' = [frame EXCEPT ![t] = AfterSetStatus(frame[t])]
    /\ UNCHANGED <<now, serial, cs, status, config, lastError, statusCallback,
                   hardware, statusMutex, committed, delivered, missed,
                   recording, pairing, budget, script>>

\* the lock_guard's destructor, and the return to the caller of setStatus
SetStatusUnlock(t) ==
    /\ frame[t].pc = "unlock"
    /\ statusMutex' = Free
    /\ frame' = [frame EXCEPT ![t] = AfterSetStatus(frame[t])]
    /\ UNCHANGED <<now, serial, cs, status, config, lastError, statusCallback,
                   hardware, committed, delivered, missed, recording, pairing,
                   budget, script>>

-----------------------------------------------------------------------------
(* The preconditions of the transitions, lines 268, 278, 287, 297, 313, 387 *)

StartAllowed_IdleOnly(s) == s = IDLE
StartAllowed(s) == s = IDLE \/ s = PAUSED
StopNeeded_NotError(s) == s # IDLE /\ s # ERROR
StopNeeded(s) == s # IDLE
PauseAllowed(s) == s = RUNNING
ResumeAllowed(s) == s = PAUSED
RunTestAllowed_NotIdle(s) == s # IDLE
RunTestAllowed(s) == s = RUNNING
CalibrateAllowed_OrError(s) == s = IDLE \/ s = ERROR \/ s = MAINTENANCE
CalibrateAllowed(s) == s = IDLE

\* the main thread follows a script
Scripted(t) == t = Main /\ script # <<>>

\* thread t may call op now: the next call of its script, or any call
\* while the callers' budget lasts
CanCall(t, op) ==
    /\ AtRest(t)
    /\ IF Scripted(t) THEN Head(script) = op ELSE budget > 0

\* the call is taken off the script or the budget
Charge(t) ==
    IF Scripted(t)
    THEN script' = Tail(script) /\ UNCHANGED budget
    ELSE budget' = budget - 1 /\ UNCHANGED script

-----------------------------------------------------------------------------
(* EquipmentController::start/stop/pause/resume, lines 267-304 *)

\* a rejected call that forgets to record its reason
Reject_KeepsError(t, op, reason) ==
    /\ UNCHANGED lastError
    /\ frame' = [frame EXCEPT ![t] = [Entered(op) EXCEPT !.pc = "done", !.ret = FALSE]]

\* a call that fails its precondition and puts the controller into Error
Reject_IntoError(t, op, reason) ==
    /\ lastError' = reason
    /\ frame' = [frame EXCEPT
                   ![t] = CallSetStatus(Entered(op), ERROR, reason, "return_false")]

\* a call that fails its precondition: lastError = reason; return false
Reject(t, op, reason) ==
    /\ lastError' = reason
    /\ frame' = [frame EXCEPT ![t] = [Entered(op) EXCEPT !.pc = "done", !.ret = FALSE]]

\* a call that passes it and clears the last error on its way
Accept_ClearsError(t, op, newStatus, message) ==
    /\ frame' = [frame EXCEPT
                   ![t] = CallSetStatus(Entered(op), newStatus, message, "return_true")]
    /\ lastError' = <<>>

\* a call that passes it: setStatus(newStatus, message); return true
Accept(t, op, newStatus, message) ==
    /\ frame' = [frame EXCEPT
                   ![t] = CallSetStatus(Entered(op), newStatus, message, "return_true")]
    /\ UNCHANGED lastError

Start(t) ==
    /\ CanCall(t, "start")
    /\ Charge(t)
    /\ IF StartAllowed(status)
       THEN Accept(t, "start", RUNNING, "Equipment started")
       ELSE Reject(t, "start", MsgStartRejected)
    /\ UNCHANGED <<now, serial, cs, status, config, statusCallback, hardware,
                   statusMutex, committed, delivered, missed, recording,
                   pairing>>

\* a stop that commits Idle whatever the status is
Stop_Always(t) ==
    /\ CanCall(t, "stop")
    /\ Charge(t)
    /\ Accept(t, "stop", IDLE, "Equipment stopped")
    /\ UNCHANGED <<now, serial, cs, status, config, statusCallback, hardware,
                   statusMutex, committed, delivered, missed, recording,
                   pairing>>

Stop(t) ==
    /\ CanCall(t, "stop")
    /\ Charge(t)
    /\ IF StopNeeded(status)
       THEN Accept(t, "stop", IDLE, "Equipment stopped")
       ELSE /\ frame' = [frame EXCEPT
                           ![t] = [Entered("stop") EXCEPT !.pc = "done", !.ret = TRUE]]
            /\ UNCHANGED lastError
    /\ UNCHANGED <<now, serial, cs, status, config, statusCallback, hardware,
                   statusMutex, committed, delivered, missed, recording,
                   pairing>>

Pause(t) ==
    /\ CanCall(t, "pause")
    /\ Charge(t)
    /\ IF PauseAllowed(status)
       THEN Accept(t, "pause", PAUSED, "Equipment paused")
       ELSE Reject(t, "pause", MsgPauseRejected)
    /\ UNCHANGED <<now, serial, cs, status, config, statusCallback, hardware,
                   statusMutex, committed, delivered, missed, recording,
                   pairing>>

Resume(t) ==
    /\ CanCall(t, "resume")
    /\ Charge(t)
    /\ IF ResumeAllowed(status)
       THEN Accept(t, "resume", RUNNING, "Equipment resumed")
       ELSE Reject(t, "resume", MsgResumeRejected)
    /\ UNCHANGED <<now, serial, cs, status, config, statusCallback, hardware,
                   statusMutex, committed, delivered, missed, recording,
                   pairing>>

-----------------------------------------------------------------------------
(* EquipmentController::initialize, lines 247-265 *)

\* device ports a caller passes in EquipmentConfig
Ports == {"simulation", "/dev/ttyUSB0"}

\* ports behind which a device exists; open() fails on every other port
DevicePorts == {"/dev/ttyUSB0"}

\* SerialInterface::connect: false when open, tcgetattr or tcsetattr fails
connect(port) == IF port \in DevicePorts THEN BOOLEAN ELSE {FALSE}

\* config = config; hardware = createHardwareInterface("serial");
\* if (!hardware) { lastError = ...; setStatus(ERROR, ...); return false; }
Initialize(t, port) ==
    /\ CanCall(t, "initialize")
    /\ Charge(t)
    /\ config' = [device_port |-> port]
    /\ hardware' = [createHardwareInterface("serial") EXCEPT !.id = hardware.id + 1]
    /\ IF ~hardware'.present
       THEN /\ lastError' = MsgCreateFailed
            /\ frame' = [frame EXCEPT
                           ![t] = CallSetStatus(Entered("initialize"), ERROR,
                                                "Failed to create hardware interface",
                                                "return_false")]
       ELSE /\ frame' = [frame EXCEPT
                           ![t] = [Entered("initialize") EXCEPT !.pc = "connect",
                                                                !.device = port]]
            /\ UNCHANGED lastError
    /\ UNCHANGED <<now, serial, cs, status, statusCallback, statusMutex,
                   committed, delivered, missed, recording, pairing>>

\* if (!hardware->connect(port, baud)) { lastError = ...;
\*     setStatus(IDLE, "... (simulation mode)"); return false; }
\* setStatus(IDLE, "... successfully"); return true;
\* an initialize that returns false without a word when connect fails
InitializeConnect_SilentFailure(t) ==
    /\ frame[t].pc = "connect"
    /\ \E ok \in connect(frame[t].device) :
          /\ hardware' = [hardware EXCEPT !.connected = ok]
          /\ IF ok
             THEN /\ frame' = [frame EXCEPT
                                 ![t] = CallSetStatus([@ EXCEPT !.io = Append(@, IoCall("connect", <<>>))],
                                                      IDLE,
                                                      "Equipment initialized successfully",
                                                      "return_true")]
                  /\ UNCHANGED lastError
             ELSE /\ lastError' = MsgConnectFailed(frame[t].device)
                  /\ frame' = [frame EXCEPT
                                 ![t] = [@ EXCEPT !.io = Append(@, IoCall("connect", <<>>)),
                                                  !.pc = "done", !.ret = FALSE,
                                                  !.device = ""]]
    /\ UNCHANGED <<now, serial, cs, status, config, statusCallback, statusMutex,
                   committed, delivered, missed, recording, pairing, budget,
                   script>>

InitializeConnect(t) ==
    /\ frame[t].pc = "connect"
    /\ \E ok \in connect(frame[t].device) :
          /\ hardware' = [hardware EXCEPT !.connected = ok]
          /\ IF ok
             THEN /\ frame' = [frame EXCEPT
                                 ![t] = CallSetStatus([@ EXCEPT !.io = Append(@, IoCall("connect", <<>>))],
                                                      IDLE,
                                                      "Equipment initialized successfully",
                                                      "return_true")]
                  /\ UNCHANGED lastError
             ELSE /\ lastError' = MsgConnectFailed(frame[t].device)
                  /\ frame' = [frame EXCEPT
                                 ![t] = CallSetStatus([@ EXCEPT !.io = Append(@, IoCall("connect", <<>>))],
                                                      IDLE,
                                                      "Equipment initialized (simulation mode)",
                                                      "return_false")]
    /\ UNCHANGED <<now, serial, cs, status, config, statusCallback, statusMutex,
                   committed, delivered, missed, recording, pairing, budget,
                   script>>

-----------------------------------------------------------------------------
(* Impl::getCurrentTimestamp, lines 233-239 *)

\* ticks of the system clock in one second
TicksPerSecond == 2

\* ticks the clock makes while the controller is watched (ClockSpec)
MaxTicks == 3

\* put_time(localtime(&time_t), "%Y-%m-%d %H:%M:%S"): the instant as a text
\* that counts whole seconds; what is left of the second is dropped
getCurrentTimestamp(instant) == <<instant \div TicksPerSecond>>

\* an identifier that is the same for every call
TestId_Blank(instant) == <<>>

\* line 310: "TEST_" + pImpl->getCurrentTimestamp()
TestId(instant) == <<"TEST_">> \o getCurrentTimestamp(instant)

\* the clock goes on by one tick
Tick ==
    /\ now < MaxTicks
    /\ now' = now + 1
    /\ UNCHANGED <<serial, cs, status, config, lastError, statusCallback,
                   hardware, statusMutex, frame, committed, delivered, missed,
                   recording, pairing, budget, script>>

-----------------------------------------------------------------------------
(* EquipmentController::runTest, lines 306-371 *)

DeviceIds == {"D1", "D2"}
ParamLists == {<<>>, <<"voltage", "5.0">>}

\* lexemes std::stod accepts as the start of a number
NumericLexemes == {"4.98", "5.0"}

\* std::stod of a numeric lexeme, in hundredths (where stod throws there
\* is no value: 0 stands for it)
Stod(lexeme) ==
    CASE lexeme = "4.98" -> 498
      [] lexeme = "5.0" -> 500
      [] OTHER -> 0

\* parameters appended without the separator
RECURSIVE JoinParams_NoSeparator(_)
JoinParams_NoSeparator(params) ==
    IF params = <<>> THEN <<>>
    ELSE <<Head(params)>> \o JoinParams_NoSeparator(Tail(params))

\* command = "TEST:" + device_id; for each param: command += ":" + param
RECURSIVE JoinParams(_)
JoinParams(params) ==
    IF params = <<>> THEN <<>>
    ELSE <<":", Head(params)>> \o JoinParams(Tail(params))

TestCommand(device_id, params) == <<"TEST", ":", device_id>> \o JoinParams(params)

\* the place of the first ":" of a line, or one past its end
RECURSIVE FirstColon(_, _)
FirstColon(line, i) ==
    IF i > Len(line) THEN i
    ELSE IF line[i] = ":" THEN i
    ELSE FirstColon(line, i + 1)

\* while (std::getline(iss, token, ':')) tokens.push_back(token): every
\* token is the lexemes up to the next ":"; no token after a final ":"
RECURSIVE Tokens(_)
Tokens(line) ==
    IF line = <<>> THEN <<>>
    ELSE LET k == FirstColon(line, 1)
         IN  <<SubSeq(line, 1, k - 1)>> \o Tokens(SubSeq(line, k + 1, Len(line)))

\* a conversion that takes every token for a number (atof)
StodThrows_Never(token) == FALSE

\* std::stod throws std::invalid_argument unless the token starts with a number
StodThrows(token) == token = <<>> \/ token[1] \notin NumericLexemes

\* a classification that takes every well-formed response for a pass
ParseResponse_AlwaysPass(result, response) ==
    LET tokens == Tokens(response)
    IN  IF Len(tokens) >= 4 /\ tokens[1] = <<"RESULT">>
        THEN IF StodThrows(tokens[2])
             THEN [result EXCEPT !.passed = FALSE,
                                 !.notes = <<"Test execution error: ", "stod">>]
             ELSE [result EXCEPT !.measurement_value = <<Stod(tokens[2][1])>>,
                                 !.units = tokens[3],
                                 !.passed = TRUE,
                                 !.notes = <<"Test completed successfully">>]
        ELSE [result EXCEPT !.passed = FALSE,
                            !.notes = <<"Invalid response format: ">> \o response]

\* lines 346-368: the TestResult for a non-empty response
ParseResponse(result, response) ==
    LET tokens == Tokens(response)
    IN  IF Len(tokens) >= 4 /\ tokens[1] = <<"RESULT">>
        THEN IF StodThrows(tokens[2])
             THEN [result EXCEPT !.passed = FALSE,
                                 !.notes = <<"Test execution error: ", "stod">>]
             ELSE [result EXCEPT !.measurement_value = <<Stod(tokens[2][1])>>,
                                 !.units = tokens[3],
                                 !.passed = (tokens[4] = <<"PASS">>),
                                 !.notes = <<"Test completed successfully">>]
        ELSE [result EXCEPT !.passed = FALSE,
                            !.notes = <<"Invalid response format: ">> \o response]

\* the frame of a runTest that returns result with passed = false and a note
Failed(f, note) ==
    [f EXCEPT !.pc = "done", !.params = <<>>,
              !.result.passed = FALSE, !.result.notes = <<note>>]

\* a runTest that records its rejection in lastError, as the transitions do
RunTest_RecordsRejection(t, device_id, params) ==
    /\ CanCall(t, "runTest")
    /\ Charge(t)
    /\ LET f == [Entered("runTest") EXCEPT !.device = device_id, !.params = params,
                                           !.result.device_id = device_id,
                                           !.result.test_id = TestId(now),
                                           !.result.timestamp = getCurrentTimestamp(now)]
       IN  IF RunTestAllowed(status)
           THEN /\ frame' = [frame EXCEPT ![t] = [f EXCEPT !.pc = "rt_probe"]]
                /\ UNCHANGED lastError
           ELSE /\ frame' = [frame EXCEPT
                               ![t] = Failed(f, "Equipment not in running state")]
                /\ lastError' = <<"Equipment not in running state">>
    /\ UNCHANGED <<now, serial, cs, status, config, statusCallback, hardware,
                   statusMutex, committed, delivered, missed, recording,
                   pairing>>

\* lines 308-317: the result's device_id, test_id and timestamp; the check of
\* status. The two readings of the clock (310, 311) are taken as one.
RunTest(t, device_id, params) ==
    /\ CanCall(t, "runTest")
    /\ Charge(t)
    /\ LET f == [Entered("runTest") EXCEPT !.device = device_id, !.params = params,
                                           !.result.device_id = device_id,
                                           !.result.test_id = TestId(now),
                                           !.result.timestamp = getCurrentTimestamp(now)]
       IN  IF RunTestAllowed(status)
           THEN frame' = [frame EXCEPT ![t] = [f EXCEPT !.pc = "rt_probe"]]
           ELSE frame' = [frame EXCEPT ![t] = Failed(f, "Equipment not in running state")]
    /\ UNCHANGED <<now, serial, cs, status, config, lastError, statusCallback,
                   hardware, statusMutex, committed, delivered, missed,
                   recording, pairing>>

\* a probe that calls isConnected without looking at the pointer first
RunTestProbe_NoNullCheck(t) ==
    /\ frame[t].pc = "rt_probe"
    /\ IF ~hardware.present
       THEN frame' = Aborted
       ELSE LET f == [frame[t] EXCEPT !.io = Append(@, IoCall("isConnected", <<>>))]
            IN  IF isConnected(hardware)
                THEN frame' = [frame EXCEPT ![t] = [f EXCEPT !.pc = "rt_send"]]
                ELSE frame' = [frame EXCEPT ![t] = Failed(f, "Hardware not connected")]
    /\ UNCHANGED <<now, serial, cs, status, config, lastError, statusCallback,
                   hardware, statusMutex, committed, delivered, missed,
                   recording, pairing, budget, script>>

\* lines 319-323: if (!hardware || !hardware->isConnected())
RunTestProbe(t) ==
    /\ frame[t].pc = "rt_probe"
    /\ IF ~hardware.present
       THEN frame' = [frame EXCEPT ![t] = Failed(@, "Hardware not connected")]
       ELSE LET f == [frame[t] EXCEPT !.io = Append(@, IoCall("isConnected", <<>>))]
            IN  IF isConnected(hardware)
                THEN frame' = [frame EXCEPT ![t] = [f EXCEPT !.pc = "rt_send"]]
                ELSE frame' = [frame EXCEPT ![t] = Failed(f, "Hardware not connected")]
    /\ UNCHANGED <<now, serial, cs, status, config, lastError, statusCallback,
                   hardware, statusMutex, committed, delivered, missed,
                   recording, pairing, budget, script>>

\* lines 327-336: build the command and send it
RunTestSend(t) ==
    /\ frame[t].pc = "rt_send"
    /\ \E ok \in sendCommand(hardware) :
          LET command == TestCommand(frame[t].device, frame[t].params)
              f == [frame[t] EXCEPT !.io = Append(@, IoCall("sendCommand", command))]
          IN  IF ok
              THEN /\ frame' = [frame EXCEPT ![t] = [f EXCEPT !.pc = "rt_recv",
                                                              !.obj = hardware.id,
                                                              !.request = NextRequest]]
                   /\ hardware' = Written(hardware)
              ELSE /\ frame' = [frame EXCEPT
                                  ![t] = Failed(f, "Failed to send test command")]
                   /\ UNCHANGED hardware
    /\ UNCHANGED <<now, serial, cs, status, config, lastError, statusCallback,
                   statusMutex, committed, delivered, missed, recording,
                   pairing, budget, script>>

\* lines 339-368: receiveResponse(5000) and the classification
RunTestReceive(t) ==
    /\ frame[t].pc = "rt_recv"
    /\ \E response \in receiveResponseOn(frame[t].obj) :
       \E reply \in Replies(frame[t].obj, response) :
          LET f == [frame[t] EXCEPT !.io = Append(@, IoCall("receiveResponse", <<>>)),
                                    !.value = response, !.obj = 0,
                                    !.answers = reply.to]
          IN  /\ hardware' = [hardware EXCEPT !.unanswered = reply.left]
              /\ IF response = Fault
                 THEN frame' = Aborted
                 ELSE IF response = <<>>
                 THEN frame' = [frame EXCEPT ![t] = Failed(f, "No response from device")]
                 ELSE frame' = [frame EXCEPT
                                  ![t] = [f EXCEPT !.pc = "done", !.params = <<>>,
                                                   !.result = ParseResponse(f.result,
                                                                            response)]]
    /\ UNCHANGED <<now, serial, cs, status, config, lastError, statusCallback,
                   statusMutex, committed, delivered, missed, recording,
                   pairing, budget, script>>

-----------------------------------------------------------------------------
(* EquipmentController::calibrate, lines 386-409 *)

\* a comparison with the whole response instead of a search in it
ContainsCalOk_Exact(response) == response = <<"CAL_OK">>

\* response.find("CAL_OK") != std::string::npos
ContainsCalOk(response) == \E i \in 1..Len(response) : response[i] = "CAL_OK"

\* lines 387-392: the check of status, then setStatus(MAINTENANCE, ...)
Calibrate(t) ==
    /\ CanCall(t, "calibrate")
    /\ Charge(t)
    /\ IF CalibrateAllowed(status)
       THEN /\ frame' = [frame EXCEPT
                           ![t] = CallSetStatus(Entered("calibrate"), MAINTENANCE,
                                                "Calibration in progress", "cal_probe")]
            /\ UNCHANGED lastError
       ELSE Reject(t, "calibrate", MsgCalibrateRejected)
    /\ UNCHANGED <<now, serial, cs, status, config, statusCallback, hardware,
                   statusMutex, committed, delivered, missed, recording,
                   pairing>>

\* lines 395-397, 407: the settling delay is over;
\* if (hardware && hardware->isConnected()) ... else setStatus(ERROR, ...)
CalibrateProbe(t) ==
    /\ frame[t].pc = "cal_probe"
    /\ IF ~hardware.present
       THEN frame' = [frame EXCEPT
                        ![t] = CallSetStatus(@, ERROR, "Calibration failed", "return_false")]
       ELSE LET f == [frame[t] EXCEPT !.io = Append(@, IoCall("isConnected", <<>>))]
            IN  IF isConnected(hardware)
                THEN frame' = [frame EXCEPT ![t] = [f EXCEPT !.pc = "cal_send"]]
                ELSE frame' = [frame EXCEPT
                                 ![t] = CallSetStatus(f, ERROR, "Calibration failed",
                                                      "return_false")]
    /\ UNCHANGED <<now, serial, cs, status, config, lastError, statusCallback,
                   hardware, statusMutex, committed, delivered, missed,
                   recording, pairing, budget, script>>

\* line 398: hardware->sendCommand("CALIBRATE"), its result is not looked at
CalibrateSend(t) ==
    /\ frame[t].pc = "cal_send"
    /\ \E ok \in sendCommand(hardware) :
          /\ frame' = [frame EXCEPT
                         ![t].pc = "cal_recv",
                         ![t].io = Append(@, IoCall("sendCommand", <<"CALIBRATE">>)),
                         ![t].obj = hardware.id,
                         ![t].request = IF ok THEN NextRequest ELSE 0]
          /\ hardware' = IF ok THEN Written(hardware) ELSE hardware
    /\ UNCHANGED <<now, serial, cs, status, config, lastError, statusCallback,
                   statusMutex, committed, delivered, missed, recording,
                   pairing, budget, script>>

\* lines 399-408: receiveResponse(10000); CAL_OK ends in IDLE, anything
\* else in ERROR
CalibrateReceive(t) ==
    /\ frame[t].pc = "cal_recv"
    /\ \E response \in receiveResponseOn(frame[t].obj) :
       \E reply \in Replies(frame[t].obj, response) :
          LET f == [frame[t] EXCEPT !.io = Append(@, IoCall("receiveResponse", <<>>)),
                                    !.value = response, !.obj = 0,
                                    !.answers = reply.to]
          IN  /\ hardware' = [hardware EXCEPT !.unanswered = reply.left]
              /\ IF response = Fault
                 THEN frame' = Aborted
                 ELSE IF ContainsCalOk(response)
                 THEN frame' = [frame EXCEPT
                                  ![t] = CallSetStatus(f, IDLE,
                                                       "Calibration completed successfully",
                                                       "return_true")]
                 ELSE frame' = [frame EXCEPT
                                  ![t] = CallSetStatus(f, ERROR, "Calibration failed",
                                                       "return_false")]
    /\ UNCHANGED <<now, serial, cs, status, config, lastError, statusCallback,
                   statusMutex, committed, delivered, missed, recording,
                   pairing, budget, script>>

-----------------------------------------------------------------------------
(* getStatus, getLastError, setStatusCallback, getHealthMetrics,
   lines 373-384 and 411-422 *)

\* a getStatus that reads status without taking the mutex
GetStatus_NoLock(t) ==
    /\ AtRest(t)
    /\ frame' = [frame EXCEPT
                   ![t] = [Fresh("getStatus") EXCEPT !.pc = "done", !.value = <<status>>]]
    /\ UNCHANGED <<now, serial, cs, status, config, lastError, statusCallback,
                   hardware, statusMutex, committed, delivered, missed,
                   recording, pairing, budget, script>>

\* lock_guard lock(statusMutex); return status;
GetStatus(t) ==
    /\ AtRest(t)
    /\ statusMutex = Free
    /\ frame' = [frame EXCEPT
                   ![t] = [Fresh("getStatus") EXCEPT !.pc = "done", !.value = <<status>>]]
    /\ UNCHANGED <<now, serial, cs, status, config, lastError, statusCallback,
                   hardware, statusMutex, committed, delivered, missed,
                   recording, pairing, budget, script>>

\* return lastError;
GetLastError(t) ==
    /\ AtRest(t)
    /\ frame' = [frame EXCEPT
                   ![t] = [Fresh("getLastError") EXCEPT !.pc = "done", !.value = lastError]]
    /\ UNCHANGED <<now, serial, cs, status, config, lastError, statusCallback,
                   hardware, statusMutex, committed, delivered, missed,
                   recording, pairing, budget, script>>

\* statusCallback = callback; the callers register one callback, once
SetStatusCallback(t) ==
    /\ AtRest(t)
    /\ ~statusCallback
    /\ IF Scripted(t)
       THEN Head(script) = "setStatusCallback" /\ script' = Tail(script)
       ELSE UNCHANGED script
    /\ statusCallback' = TRUE
    /\ frame' = [frame EXCEPT ![t] = [Fresh("setStatusCallback") EXCEPT !.pc = "done"]]
    /\ UNCHANGED <<now, serial, cs, status, config, lastError, hardware,
                   statusMutex, committed, delivered, missed, recording,
                   pairing, budget>>

\* the names of the five metrics getHealthMetrics pushes, in order
HealthMetricNames ==
    <<"Temperature", "Vibration", "Power_Consumption", "Uptime_Hours", "Error_Rate">>

\* metrics that are reported only once a transport exists
GetHealthMetrics_NeedsHardware(t) ==
    /\ AtRest(t)
    /\ frame' = [frame EXCEPT
                   ![t] = [Fresh("getHealthMetrics") EXCEPT
                             !.pc = "done",
                             !.value = IF hardware.present THEN HealthMetricNames
                                       ELSE <<>>]]
    /\ UNCHANGED <<now, serial, cs, status, config, lastError, statusCallback,
                   hardware, statusMutex, committed, delivered, missed,
                   recording, pairing, budget, script>>

GetHealthMetrics(t) ==
    /\ AtRest(t)
    /\ frame' = [frame EXCEPT
                   ![t] = [Fresh("getHealthMetrics") EXCEPT !.pc = "done",
                                                            !.value = HealthMetricNames]]
    /\ UNCHANGED <<now, serial, cs, status, config, lastError, statusCallback,
                   hardware, statusMutex, committed, delivered, missed,
                   recording, pairing, budget, script>>

-----------------------------------------------------------------------------
(* SerialInterface on its own (POSIX branch), lines 29-200 *)

\* descriptors the process can have open at once: open() fails when all
\* are in use
MaxDescriptors == 2

\* iterations of receiveResponse's loop a timeout allows (timeout_ms / 10)
MaxPolls == 3

Descriptors == 3..(2 + MaxDescriptors)
NoDescriptor == -1

CR == "CR"
LF == "LF"
Whitespace == {CR, LF, " "}

\* what one read() can deliver: part of a line, the rest of it, a whole
\* line, an empty line
Chunks ==
    { <<"RESULT", ":", "4.98">>,
      <<":", "V", ":", "PASS", CR, LF>>,
      <<"CAL_OK", CR, LF>>,
      <<CR, LF>> }

\* what happens inside connect
ConnectOutcomes == {"open fails", "tcgetattr fails", "tcsetattr fails", "connected"}

\* SerialInterface::SerialInterface: serial_fd = -1, connected(false); open
\* is the set of descriptors this object has opened and not closed;
\* wasConnected and terminated are history: a connect succeeded once, the
\* loop of receiveResponse ended on a line feed
NewPort ==
    [serial_fd |-> NoDescriptor, connected |-> FALSE, open |-> {},
     wasConnected |-> FALSE, pc |-> "idle", call |-> "none", ret |-> FALSE,
     response |-> <<>>, elapsed |-> 0, timeout |-> 0, terminated |-> FALSE]

\* no call of the transport is in progress
PortAtRest == serial.pc \in {"idle", "done"}

\* the members as a call finds them, with the results of the last call gone
Called(fn) ==
    [serial EXCEPT !.pc = "done", !.call = fn, !.ret = FALSE, !.response = <<>>,
                   !.elapsed = 0, !.timeout = 0, !.terminated = FALSE]

\* open() returns the lowest descriptor that is not in use
LowestFree == CHOOSE d \in Descriptors \ serial.open :
                  \A e \in Descriptors \ serial.open : d <= e

\* the line has a line feed in it
HasLineFeed(line) == \E i \in 1..Len(line) : line[i] = LF

\* response.erase(find_if(rbegin, rend, !isspace).base(), end)
RECURSIVE TrimRight(_)
TrimRight(line) ==
    IF line = <<>> THEN <<>>
    ELSE IF line[Len(line)] \in Whitespace THEN TrimRight(SubSeq(line, 1, Len(line) - 1))
    ELSE line

\* connect, lines 95-128: serial_fd = open(...); on failure return false;
\* when tcgetattr or tcsetattr fails close(serial_fd) and return false;
\* connected = true.  Neither connected nor an earlier descriptor is looked
\* at, and serial_fd keeps the number of a descriptor closed after a failure
SerialConnect(outcome) ==
    /\ PortAtRest
    /\ LET c == Called("connect")
       IN  IF outcome = "open fails" \/ Descriptors \ serial.open = {}
           THEN serial' = [c EXCEPT !.serial_fd = NoDescriptor]
           ELSE IF outcome = "connected"
           THEN serial' = [c EXCEPT !.serial_fd = LowestFree,
                                    !.open = @ \cup {LowestFree},
                                    !.connected = TRUE, !.wasConnected = TRUE,
                                    !.ret = TRUE]
           ELSE serial' = [c EXCEPT !.serial_fd = LowestFree]
    /\ UNCHANGED <<controllerVars, cs>>

\* disconnect, lines 131-147: if (!connected) return true; close the
\* descriptor if serial_fd >= 0, serial_fd = -1; connected = false
SerialDisconnect ==
    /\ PortAtRest
    /\ LET c == [Called("disconnect") EXCEPT !.ret = TRUE]
       IN  IF ~serial.connected
           THEN serial' = c
           ELSE serial' = [c EXCEPT !.open = @ \ {serial.serial_fd},
                                    !.serial_fd = NoDescriptor,
                                    !.connected = FALSE]
    /\ UNCHANGED <<controllerVars, cs>>

\* receiveResponse(timeout_ms), lines 162-167: "" when not connected
SerialReceive(timeout) ==
    /\ PortAtRest
    /\ LET c == Called("receiveResponse")
       IN  IF ~serial.connected
           THEN serial' = c
           ELSE serial' = [c EXCEPT !.pc = "reading", !.timeout = timeout]
    /\ UNCHANGED <<controllerVars, cs>>

\* what read(serial_fd, ...) can deliver: nothing from a descriptor that
\* is not open
Readable == IF serial.serial_fd \in serial.open THEN Chunks \cup {<<>>} ELSE {<<>>}

\* lines 169-188: one iteration of the loop, or its end by timeout
SerialPoll ==
    /\ serial.pc = "reading"
    /\ IF serial.elapsed < serial.timeout
       THEN \E chunk \in Readable :
               LET response == serial.response \o chunk
               IN  IF chunk # <<>> /\ HasLineFeed(response)
                   THEN serial' = [serial EXCEPT !.response = response,
                                                 !.terminated = TRUE, !.pc = "trim"]
                   ELSE serial' = [serial EXCEPT !.response = response,
                                                 !.elapsed = @ + 1]
       ELSE serial' = [serial EXCEPT !.pc = "trim"]
    /\ UNCHANGED <<controllerVars, cs>>

\* lines 190-194: trailing whitespace is removed and the response returned
SerialReturn ==
    /\ serial.pc = "trim"
    /\ serial' = [serial EXCEPT !.pc = "done", !.response = TrimRight(@)]
    /\ UNCHANGED <<controllerVars, cs>>

-----------------------------------------------------------------------------
(* The C# controller, src/csharp/EquipmentController.cs *)

\* calls of the C# controller's operations by all threads (CsSpec)
MaxCsCalls == 3

CsMsgStartRejected == <<"Equipment must be in Idle or Paused state to start">>
CsMsgConnectFailed(port) == <<"Failed to connect to device on port ", port, ": ">>

\* SerialPort.WriteLine or ReadLine threw (TimeoutException after
\* WriteTimeout/ReadTimeout = 1000, IOException ...)
Thrown == <<"exception">>

\* what _serialPort.ReadLine() gives: a line, or an exception
ReadLine == (Responses \ {<<>>}) \cup {Thrown}

CsIdleThread == [pc |-> "idle", call |-> "none", ret |-> FALSE, value |-> <<>>]

\* lines 89-94: _status = Idle, _lastError = "", no serial port, _lock free
CsConstructed ==
    [status |-> IDLE, lastError |-> <<>>, serialPortOpen |-> FALSE, lock |-> Free,
     calls |-> 0, thread |-> [t \in Threads |-> CsIdleThread]]

CsAtRest(t) == cs.thread[t].pc \in {"idle", "done"}

CsCanCall(t) == CsAtRest(t) /\ cs.calls < MaxCsCalls

\* the frame of a call of op that has returned ret
CsReturned(op, ret) == [CsIdleThread EXCEPT !.pc = "done", !.call = op, !.ret = ret]

\* lines 125-156: _serialPort = new SerialPort(...); Open() succeeds or
\* throws; what follows is SetStatus(Idle, ...), which needs _lock
CsInitialize(t, port) ==
    /\ CsCanCall(t)
    /\ \E ok \in connect(port) :
          cs' = [cs EXCEPT
                   !.calls = @ + 1,
                   !.serialPortOpen = ok,
                   !.lastError = IF ok THEN @ ELSE CsMsgConnectFailed(port),
                   !.thread[t] = [CsIdleThread EXCEPT !.pc = "cs_set_idle",
                                                      !.call = "Initialize",
                                                      !.ret = ok]]
    /\ UNCHANGED <<controllerVars, serial>>

\* lines 147, 154: SetStatus(EquipmentStatus.Idle, ...) and the return
CsInitializeCommit(t) ==
    /\ cs.thread[t].pc = "cs_set_idle"
    /\ cs.lock = Free
    /\ cs' = [cs EXCEPT !.status = IDLE, !.thread[t].pc = "done"]
    /\ UNCHANGED <<controllerVars, serial>>

\* Start, Stop, Pause, Resume (171-229): the whole body runs under _lock
CsOperations == {"Start", "Stop", "Pause", "Resume"}

CsAllowed(op, s) ==
    CASE op = "Start" -> s \in {IDLE, PAUSED}
      [] op = "Stop" -> TRUE
      [] op = "Pause" -> s = RUNNING
      [] op = "Resume" -> s = PAUSED

CsTarget(op) ==
    CASE op = "Start" -> RUNNING
      [] op = "Stop" -> IDLE
      [] op = "Pause" -> PAUSED
      [] op = "Resume" -> RUNNING

CsRejectReason(op) ==
    CASE op = "Start" -> CsMsgStartRejected
      [] op = "Pause" -> MsgPauseRejected
      [] op = "Resume" -> MsgResumeRejected
      [] OTHER -> <<>>

CsTransition(t, op) ==
    /\ CsCanCall(t)
    /\ cs.lock = Free
    /\ IF CsAllowed(op, cs.status)
       THEN cs' = [cs EXCEPT !.calls = @ + 1, !.status = CsTarget(op),
                             !.thread[t] = CsReturned(op, TRUE)]
       ELSE cs' = [cs EXCEPT !.calls = @ + 1, !.lastError = CsRejectReason(op),
                             !.thread[t] = CsReturned(op, FALSE)]
    /\ UNCHANGED <<controllerVars, serial>>

\* lines 300-308: lock (_lock), the check of _status, SetStatus(Maintenance):
\* the nested lock in SetStatus is taken by the thread that owns _lock
CsCalibrate(t) ==
    /\ CsCanCall(t)
    /\ cs.lock = Free
    /\ IF cs.status # IDLE
       THEN cs' = [cs EXCEPT !.calls = @ + 1, !.lastError = MsgCalibrateRejected,
                             !.thread[t] = CsReturned("Calibrate", FALSE)]
       ELSE cs' = [cs EXCEPT !.calls = @ + 1, !.lock = t, !.status = MAINTENANCE,
                             !.thread[t] = [CsIdleThread EXCEPT !.pc = "cs_sleep",
                                                                !.call = "Calibrate"]]
    /\ UNCHANGED <<controllerVars, serial>>

\* the end of Calibrate: SetStatus(status, ...), return ret, and the end of
\* the lock statement
CsCalibrateEnd(c, t, newStatus, ret) ==
    [c EXCEPT !.status = newStatus, !.lock = Free,
              !.thread[t].pc = "done", !.thread[t].ret = ret]

\* lines 313-315 and 326-331: Thread.Sleep(2000); without an open port the
\* calibration is simulated
CsCalibrateSleep(t) ==
    /\ cs.thread[t].pc = "cs_sleep"
    /\ IF cs.serialPortOpen
       THEN cs' = [cs EXCEPT !.thread[t].pc = "cs_write"]
       ELSE cs' = CsCalibrateEnd(cs, t, IDLE, TRUE)
    /\ UNCHANGED <<controllerVars, serial>>

\* line 317: _serialPort.WriteLine("CALIBRATE"); an exception goes to the
\* catch block (336-341)
CsCalibrateWrite(t) ==
    /\ cs.thread[t].pc = "cs_write"
    /\ \E written \in BOOLEAN :
          IF written
          THEN cs' = [cs EXCEPT !.thread[t].pc = "cs_read"]
          ELSE cs' = CsCalibrateEnd([cs EXCEPT !.lastError = <<"Calibration error: ">>],
                                    t, ERROR, FALSE)
    /\ UNCHANGED <<controllerVars, serial>>

\* lines 318-334: ReadLine(); CAL_OK ends in Idle, another line in Error
CsCalibrateRead(t) ==
    /\ cs.thread[t].pc = "cs_read"
    /\ \E response \in ReadLine :
          LET c == [cs EXCEPT !.thread[t].value = response]
          IN  IF response = Thrown
              THEN cs' = CsCalibrateEnd([c EXCEPT !.lastError = <<"Calibration error: ">>],
                                        t, ERROR, FALSE)
              ELSE IF ContainsCalOk(response)
              THEN cs' = CsCalibrateEnd(c, t, IDLE, TRUE)
              ELSE cs' = CsCalibrateEnd(c, t, ERROR, FALSE)
    /\ UNCHANGED <<controllerVars, serial>>

\* lines 96-105: the Status property: lock (_lock) { return _status; }
CsGetStatus(t) ==
    /\ CsAtRest(t)
    /\ cs.lock = Free
    /\ cs' = [cs EXCEPT !.thread[t] = [CsReturned("Status", FALSE) EXCEPT
                                         !.value = <<cs.status>>]]
    /\ UNCHANGED <<controllerVars, serial>>

-----------------------------------------------------------------------------
(* The controller after construction (Impl::Impl, line 216) and its callers *)

Constructed_InError ==
    /\ status = ERROR
    /\ config = [device_port |-> ""]
    /\ lastError = <<>>
    /\ statusCallback = FALSE
    /\ hardware = NoHardware
    /\ statusMutex = Free
    /\ frame = [t \in Threads |-> IdleFrame]
    /\ committed = <<>>
    /\ delivered = <<>>
    /\ missed = FALSE
    /\ now = 0
    /\ serial = NewPort
    /\ cs = CsConstructed

Constructed ==
    /\ status = IDLE
    /\ config = [device_port |-> ""]
    /\ lastError = <<>>
    /\ statusCallback = FALSE
    /\ hardware = NoHardware
    /\ statusMutex = Free
    /\ frame = [t \in Threads |-> IdleFrame]
    /\ committed = <<>>
    /\ delivered = <<>>
    /\ missed = FALSE
    /\ now = 0
    /\ serial = NewPort
    /\ cs = CsConstructed

\* thread t enters an operation of a controller in use
Call(t) ==
    \/ Start(t)
    \/ Stop(t)
    \/ Pause(t)
    \/ Resume(t)
    \/ \E d \in DeviceIds, ps \in ParamLists : RunTest(t, d, ps)
    \/ Calibrate(t)

\* thread t goes one step on in the operation it is in
Advance(t) ==
    \/ InitializeConnect(t)
    \/ RunTestProbe(t)
    \/ RunTestSend(t)
    \/ RunTestReceive(t)
    \/ CalibrateProbe(t)
    \/ CalibrateSend(t)
    \/ CalibrateReceive(t)
    \/ SetStatusLock(t)
    \/ SetStatusWrite(t)
    \/ SetStatusNotify(t)
    \/ SetStatusUnlock(t)

\* one step of thread t in an operation that can change the controller
Step(t) ==
    \/ \E port \in Ports : Initialize(t, port)
    \/ Call(t)
    \/ Advance(t)
    \/ SetStatusCallback(t)

\* one call of thread t that only reads
Observe(t) ==
    \/ GetStatus(t)
    \/ GetLastError(t)
    \/ GetHealthMetrics(t)

\* Spec: several threads call into one controller, MaxCalls calls in all
Init == Constructed /\ budget = MaxCalls /\ script = <<>> /\ recording = FALSE /\ pairing = FALSE
Next == \E t \in Threads : Step(t)
Spec == Init /\ [][Next]_vars

\* SeqSpec: one thread calls into the controller, and reads it between calls
SeqInit == Constructed /\ budget = SeqMaxCalls /\ script = <<>> /\ recording = TRUE /\ pairing = FALSE
SeqNext == Step(Main) \/ Observe(Main)
SeqSpec == SeqInit /\ [][SeqNext]_vars

\* the calls of test_full_system_workflow (integration test, lines 54-90)
Workflow ==
    <<"setStatusCallback", "initialize", "start", "pause", "resume", "stop">>

\* WorkflowSpec: the main thread makes the calls of Workflow and then none,
\* while the other threads make MaxInterference calls of their choice
WorkflowInit ==
    /\ Constructed
    /\ budget = MaxInterference
    /\ script = Workflow \o <<"exit">>
    /\ recording = TRUE /\ pairing = FALSE
WorkflowSpec == WorkflowInit /\ [][Next]_vars

\* calls the other threads make while the main thread runs a test
\* (ExchangeSpec)
MaxRivalCalls == 2

\* the calls that take a controller into a test on a connected device
\* (integration test, lines 97-110)
TestSetup == <<"initialize", "start", "runTest">>

\* ExchangeSpec: the main thread initializes, starts and runs one test, while
\* the other threads make MaxRivalCalls calls of their choice
ExchangeInit ==
    /\ Constructed
    /\ budget = MaxRivalCalls
    /\ script = TestSetup \o <<"exit">>
    /\ recording = FALSE /\ pairing = FALSE
ExchangeSpec == ExchangeInit /\ [][Next]_vars

\* retries and rival calls after the first test (PairingSpec)
MaxRetries == 2

\* the main thread initializes, starts and runs one test; then all threads
\* make MaxRetries calls of their choice, and the requests that the replies
\* answer are kept
PairingInit ==
    /\ Constructed
    /\ budget = MaxRetries
    /\ script = TestSetup
    /\ recording = FALSE /\ pairing = TRUE

\* the calls of a session that tests and then calibrates a device
Session ==
    <<"initialize", "start", "runTest", "pause", "resume", "stop", "calibrate">>

\* MonitorSpec: the main thread makes the calls of Session, while the other
\* threads read the controller (the monitor thread of the integration test,
\* lines 186-195) and make MaxInterference calls of their choice
MonitorInit ==
    /\ Constructed
    /\ budget = MaxInterference
    /\ script = Session \o <<"exit">>
    /\ recording = FALSE /\ pairing = FALSE
MonitorNext == \E t \in Threads : Step(t) \/ Observe(t)
MonitorSpec == MonitorInit /\ [][MonitorNext]_vars

\* SerialSpec: a SerialInterface made by createHardwareInterface("serial")
\* is connected, disconnected and read by one caller (unit test, line 128)
SerialInit ==
    /\ Constructed
    /\ budget = 0
    /\ script = <<>>
    /\ recording = FALSE /\ pairing = FALSE
SerialNext ==
    \/ \E outcome \in ConnectOutcomes : SerialConnect(outcome)
    \/ SerialDisconnect
    \/ \E timeout \in 1..MaxPolls : SerialReceive(timeout)
    \/ SerialPoll
    \/ SerialReturn
SerialSpec == SerialInit /\ [][SerialNext]_vars

\* CsSpec: several threads call into one C# controller, MaxCsCalls calls in
\* all, and read its Status between their calls
CsInit == SerialInit
CsNext ==
    \E t \in Threads :
        \/ \E port \in Ports : CsInitialize(t, port)
        \/ CsInitializeCommit(t)
        \/ \E op \in CsOperations : CsTransition(t, op)
        \/ CsCalibrate(t)
        \/ CsCalibrateSleep(t)
        \/ CsCalibrateWrite(t)
        \/ CsCalibrateRead(t)
        \/ CsGetStatus(t)
CsSpec == CsInit /\ [][CsNext]_vars

\* calls the worker threads make after the set-up (FairSpec)
MaxWorkerCalls == 2

\* FairSpec: the concurrent test of the integration test (lines 172-238):
\* the main thread initializes and starts the controller, which no thread
\* initializes again; then the threads make MaxWorkerCalls calls of start,
\* stop, pause, resume, runTest and calibrate in all and read the status and
\* the health metrics as often as they like.  A thread inside an operation
\* is scheduled again and again.
FairInit ==
    /\ Constructed
    /\ budget = MaxWorkerCalls
    /\ script = <<"initialize", "start">>
    /\ recording = FALSE /\ pairing = FALSE
SetUp(port) == Scripted(Main) /\ Initialize(Main, port)
FairNext ==
    \/ \E port \in Ports : SetUp(port)
    \/ \E t \in Threads : Call(t) \/ Advance(t) \/ GetStatus(t) \/ GetHealthMetrics(t)
Fairness == \A t \in Threads : WF_vars(Advance(t))
FairSpec == FairInit /\ [][FairNext]_vars /\ Fairness

\* PairingSpec: one initialize, by the main thread, and no subscriber
PairingNext ==
    \/ \E port \in Ports : SetUp(port)
    \/ \E t \in Threads : Call(t) \/ Advance(t)
PairingSpec == PairingInit /\ [][PairingNext]_vars

\* ClockSpec: several threads call into one controller, MaxCalls calls in
\* all, while the clock runs
ClockInit == Init
ClockNext == Next \/ Tick
ClockSpec == ClockInit /\ [][ClockNext]_vars

-----------------------------------------------------------------------------
(* Properties *)

Transitions == {"start", "stop", "pause", "resume"}

\* a call of thread t has returned
Returned(t, op) == frame[t].pc = "done" /\ frame[t].call = op

\* the status values of a sequence of notifications
StatusesOf(notifications) ==
    [i \in DOMAIN notifications |-> notifications[i].status]

IsPrefix(s, t) == Len(s) <= Len(t) /\ s = SubSeq(t, 1, Len(s))

\* C1: for a single caller, start returns true exactly when the status it
\* found was Idle or Paused and then status is Running; pause exactly when
\* Running, then Paused; resume exactly when Paused, then Running; stop
\* always returns true and then status is Idle; a call that returns false
\* leaves status as it found it.
C1_TransitionTable ==
    LET f == frame[Main]
    IN  f.pc = "done" =>
          /\ f.call = "start" =>
                /\ f.ret = (f.seen \in {IDLE, PAUSED})
                /\ f.ret => status = RUNNING
          /\ f.call = "pause" =>
                /\ f.ret = (f.seen = RUNNING)
                /\ f.ret => status = PAUSED
          /\ f.call = "resume" =>
                /\ f.ret = (f.seen = PAUSED)
                /\ f.ret => status = RUNNING
          /\ f.call = "stop" => f.ret /\ status = IDLE
          /\ (f.call \in Transitions /\ ~f.ret) => status = f.seen

\* a resume has succeeded after a pause was rejected earlier
C1_Witness ==
    /\ Returned(Main, "resume")
    /\ frame[Main].ret
    /\ frame[Main].seen = PAUSED
    /\ status = RUNNING
    /\ lastError = MsgPauseRejected

\* the status a thread must find when it commits newStatus for its call
CommitLegal(call, newStatus, s) ==
    /\ call = "start" => s \in {IDLE, PAUSED}
    /\ call = "pause" => s = RUNNING
    /\ call = "resume" => s = PAUSED
    /\ (call = "calibrate" /\ newStatus = MAINTENANCE) => s = IDLE

\* C2: with several threads in start, stop, pause, resume and calibrate, a
\* thread that holds the mutex and is about to write the new status finds a
\* status that satisfies its operation's precondition.
C2_AtomicTransitions ==
    \A t \in Threads :
        frame[t].pc = "write" =>
            CommitLegal(frame[t].call, frame[t].newStatus, status)

\* C3: runTest that found a status other than Running returns passed = false
\* and has called nothing of the transport.
C3_RunTestNotRunning ==
    LET f == frame[Main]
    IN  (Returned(Main, "runTest") /\ f.seen # RUNNING) =>
            /\ f.result.passed = FALSE
            /\ f.io = <<>>

\* runTest was refused in Paused although a connected transport was there
C3_Witness ==
    /\ Returned(Main, "runTest")
    /\ frame[Main].seen = PAUSED
    /\ hardware.present /\ hardware.connected
    /\ frame[Main].result.passed = FALSE

\* C4: calibrate that found Running, Paused, Error or Maintenance returns
\* false, has written no status, delivered no notification and called
\* nothing of the transport.
C4_CalibrateRejected ==
    \A t \in Threads :
        (Returned(t, "calibrate")
           /\ frame[t].seen \in {RUNNING, PAUSED, ERROR, MAINTENANCE}) =>
            /\ frame[t].ret = FALSE
            /\ frame[t].wrote = <<>>
            /\ frame[t].cbs = <<>>
            /\ frame[t].io = <<>>

\* calibrate was refused because another calibration was in progress
C4_Witness ==
    \E t \in Threads :
        /\ Returned(t, "calibrate")
        /\ frame[t].seen = MAINTENANCE
        /\ statusCallback
        /\ lastError = MsgCalibrateRejected

\* the responses that contain the token CAL_OK
CalOkResponses == {r \in Responses : \E i \in DOMAIN r : r[i] = "CAL_OK"}

\* C5: calibrate of a single caller that found Idle writes Maintenance
\* first and one more status: it returns true with status Idle if and only
\* if the transport is connected and the response contains CAL_OK, and
\* false with status Error otherwise; a subscriber gets Maintenance and
\* then Idle or Error.
C5_CalibrateFromIdle ==
    LET f == frame[Main]
        ok == hardware.present /\ hardware.connected /\ f.value \in CalOkResponses
    IN  (Returned(Main, "calibrate") /\ f.seen = IDLE) =>
            /\ f.ret = ok
            /\ f.wrote = <<MAINTENANCE, IF ok THEN IDLE ELSE ERROR>>
            /\ status = (IF ok THEN IDLE ELSE ERROR)
            /\ statusCallback => f.cbs = f.wrote

\* a calibration succeeded on a response that has CAL_OK among other tokens
C5_Witness ==
    /\ Returned(Main, "calibrate")
    /\ frame[Main].ret
    /\ frame[Main].value = <<"STATUS", ":", "CAL_OK", ":", "OK">>
    /\ frame[Main].cbs = <<MAINTENANCE, IDLE>>
    /\ status = IDLE

\* C6: initialize whose connect failed returns false, leaves a non-empty
\* last error and status Idle.
C6_InitializeUnreachable ==
    (Returned(Main, "initialize") /\ ~hardware.connected) =>
        /\ frame[Main].ret = FALSE
        /\ lastError # <<>>
        /\ status = IDLE

\* initialize failed on a port without a device, from status Running
C6_Witness ==
    /\ Returned(Main, "initialize")
    /\ config.device_port = "simulation"
    /\ frame[Main].seen = RUNNING
    /\ ~hardware.connected
    /\ lastError = <<"Failed to connect to device on port ", "simulation">>

\* C7: initialize writes one status, Idle, whatever the status was when it
\* was called and whether connect succeeded; status is Idle from that write
\* until initialize releases the mutex and returns.
C7_InitializeEndsIdle ==
    \A t \in Threads :
        frame[t].call = "initialize" =>
            /\ frame[t].pc \in {"notify", "unlock"} => status = IDLE
            /\ frame[t].pc = "done" => frame[t].wrote = <<IDLE>>

\* initialize was called during another thread's calibration
C7_Witness ==
    \E t \in Threads :
        /\ Returned(t, "initialize")
        /\ frame[t].seen = MAINTENANCE
        /\ frame[t].wrote = <<IDLE>>

\* the reason each operation records when its precondition fails
RejectReason(op) ==
    CASE op = "start" -> <<"Equipment must be in IDLE or PAUSED state to start">>
      [] op = "pause" -> <<"Equipment must be running to pause">>
      [] op = "resume" -> <<"Equipment must be paused to resume">>
      [] op = "calibrate" -> <<"Equipment must be idle for calibration">>

\* the status found does not satisfy the precondition of op
PreconditionFails(op, s) ==
    CASE op = "start" -> s \notin {IDLE, PAUSED}
      [] op = "stop" -> FALSE
      [] op = "pause" -> s # RUNNING
      [] op = "resume" -> s # PAUSED
      [] op = "calibrate" -> s # IDLE

\* C8: for a single caller, start, pause, resume or calibrate that fails
\* its precondition leaves status as it was, and the last error is then the
\* non-empty message of that call.
C8_RejectionRecorded ==
    LET f == frame[Main]
    IN  (f.pc = "done" /\ f.call \in {"start", "pause", "resume", "calibrate"}
           /\ PreconditionFails(f.call, f.seen)) =>
            /\ f.ret = FALSE
            /\ status = f.seen
            /\ lastError = RejectReason(f.call)
            /\ lastError # <<>>

\* start was refused in status Error, which a failed calibration left
C8_Witness ==
    /\ Returned(Main, "start")
    /\ frame[Main].seen = ERROR
    /\ ~frame[Main].ret
    /\ lastError = MsgStartRejected

\* C9 as stated: with a callback registered, every call of start, stop,
\* pause, resume or calibrate, accepted or rejected, has invoked the
\* callback when it returns.
C9_Original ==
    LET f == frame[Main]
    IN  (statusCallback /\ f.pc = "done" /\ f.call \in Transitions \cup {"calibrate"}) =>
            Len(f.cbs) >= 1

\* C9 as amended: with a callback registered, a call of start, stop, pause,
\* resume or calibrate has invoked the callback, before it returns, once for
\* every status it wrote, with that status; it wrote at least one exactly
\* when it passed its precondition (stop: when status was not Idle), so a
\* rejected call and a stop in Idle invoke no callback.
C9_NotifiedPerCommit ==
    LET f == frame[Main]
    IN  (statusCallback /\ f.pc = "done" /\ f.call \in Transitions \cup {"calibrate"}) =>
            /\ f.cbs = f.wrote
            /\ (f.cbs # <<>>) =
                 (IF f.call = "stop" THEN f.seen # IDLE
                  ELSE ~PreconditionFails(f.call, f.seen))

\* a pause was accepted and its callback ran before it returned
C9_Witness ==
    /\ statusCallback
    /\ Returned(Main, "pause")
    /\ frame[Main].ret
    /\ frame[Main].cbs = <<PAUSED>>
    /\ delivered # <<>>
    /\ delivered[Len(delivered)] = [status |-> PAUSED, message |-> "Equipment paused"]

\* C10: when the callback was registered before the first status was
\* written, the status values delivered to it are the status values
\* written, in the order of writing: a prefix of them at any time, and all
\* of them whenever no thread is inside setStatus.
C10_DeliveredInCommitOrder ==
    ~missed =>
        /\ IsPrefix(StatusesOf(delivered), committed)
        /\ statusMutex = Free => StatusesOf(delivered) = committed

\* the workflow of the integration test has delivered its five statuses
C10_Witness ==
    /\ ~missed
    /\ script = <<"exit">>
    /\ \A t \in Threads : AtRest(t)
    /\ StatusesOf(delivered) = <<IDLE, RUNNING, PAUSED, RUNNING, IDLE>>
    /\ committed = <<IDLE, RUNNING, PAUSED, RUNNING, IDLE>>

\* thread t is inside runTest after the check of status and before the return
InExchange(t) ==
    frame[t].call = "runTest" /\ frame[t].pc \in {"rt_probe", "rt_send", "rt_recv"}

\* thread t is inside calibrate's Maintenance phase: it has written
\* Maintenance and has not yet entered the setStatus that ends the call
InMaintenancePhase(t) ==
    /\ frame[t].call = "calibrate"
    /\ \/ frame[t].pc \in {"cal_probe", "cal_send", "cal_recv"}
       \/ frame[t].pc \in {"notify", "unlock"} /\ frame[t].cont = "cal_probe"

\* C11: calibration and test execution are mutually exclusive: in no
\* reachable state is one thread inside runTest's exchange with the
\* transport (after its check of status, before it returns) while another
\* thread is inside calibrate's Maintenance phase.
C11_MutuallyExclusive ==
    \A t, u \in Threads : ~(t # u /\ InExchange(t) /\ InMaintenancePhase(u))

\* the operations that test status on entry, lines 268, 278, 287, 297, 313, 387
StatusCheckers == {"start", "stop", "pause", "resume", "runTest", "calibrate"}

\* in this step thread t enters op and reads what op reads on entry
Enters(t, op) == AtRest(t) /\ frame'[t] # frame[t] /\ frame'[t].call = op

\* C12: every read and every write of status by a public operation happens
\* while the calling thread holds statusMutex: the thread that tests status
\* on entering start, stop, pause, resume, runTest or calibrate owns the
\* mutex at that step, getStatus reads after taking the free mutex, and the
\* thread that writes status in setStatus owns it.
C12_StatusUnderMutex ==
    [][\A t \in Threads :
          /\ \A op \in StatusCheckers : Enters(t, op) => statusMutex = t
          /\ Enters(t, "getStatus") => statusMutex = Free
          /\ (frame[t].pc = "write" /\ frame'[t].pc = "notify") => statusMutex = t]_vars

\* thread t is in calibrate's settling delay or inside a call of the
\* transport: sendCommand or receiveResponse of runTest or of calibrate
WaitsOnDevice(t) ==
    frame[t].pc \in {"rt_send", "rt_recv", "cal_probe", "cal_send", "cal_recv"}

\* thread t is inside setStatus with the mutex
InSetStatus(t) == frame[t].pc \in {"write", "notify", "unlock"}

\* C13: a thread that is in sendCommand, in receiveResponse or in
\* calibrate's settling delay does not own statusMutex; so a getStatus of
\* another thread can take the mutex and return at once, unless a third
\* party is inside setStatus at that moment.
C13_NoMutexWhileWaiting ==
    \A t \in Threads :
        WaitsOnDevice(t) =>
            /\ statusMutex # t
            /\ \A u \in Threads \ {t} :
                  (AtRest(u) /\ \A v \in Threads \ {t} : ~InSetStatus(v)) =>
                      ENABLED GetStatus(u)

\* getStatus has returned Maintenance to the monitor while the main thread
\* waits for the answer to CALIBRATE
C13_Witness ==
    /\ frame[Main].pc = "cal_recv"
    /\ \E u \in Threads \ {Main} :
          Returned(u, "getStatus") /\ frame[u].value = <<MAINTENANCE>>

\* thread t is inside receiveResponse
Receiving(t) == frame[t].pc \in {"rt_recv", "cal_recv"}

\* C14: a transport object is never released or replaced while another
\* thread is using it: the object a runTest or calibrate is calling
\* receiveResponse on is the object the controller still holds.
C14_TransportAlive ==
    \A t \in Threads : Receiving(t) => frame[t].obj = hardware.id

\* C15: under fair scheduling every call of start, stop, pause, resume,
\* runTest and calibrate by concurrent callers returns, also when the device
\* sends nothing; the mutex is free again after every hold, so that a
\* getStatus waiting for it gets it; status is always one of the five values.
C15_EveryCallReturns ==
    /\ \A t \in Threads : (~AtRest(t)) ~> AtRest(t)
    /\ (statusMutex # Free) ~> (statusMutex = Free)
    /\ [](status \in EquipmentStatus)

\* a calibrate whose receiveResponse timed out on a silent device is
\* writing Error, while the other thread waits for the mutex it holds
C15_Witness ==
    \E t, u \in Threads :
        /\ frame[t].pc = "lock" /\ statusMutex = u /\ t # u
        /\ frame[u].call = "calibrate"
        /\ frame[u].io # <<>>
        /\ frame[u].io[Len(frame[u].io)].fn = "receiveResponse"
        /\ frame[u].value = <<>>
        /\ frame[u].cont = "return_false"

\* the main thread's runTest has returned after receiveResponse: it found
\* Running and a connected transport, and its send succeeded
Exchanged ==
    /\ Returned(Main, "runTest")
    /\ Len(frame[Main].io) = 3
    /\ frame[Main].io[3].fn = "receiveResponse"

\* the response has fewer than 4 tokens or its first token is not RESULT
Malformed(response) ==
    Len(Tokens(response)) < 4 \/ Tokens(response)[1] # <<"RESULT">>

MissingToken == <<"RESULT", ":", "abc", ":", "V">>
ValueNotNumeric == <<"RESULT", ":", "abc", ":", "V", ":", "PASS">>

\* C17: a malformed response does not escape runTest as a fault: for
\* RESULT:abc:V and for RESULT:abc:V:PASS runTest returns with passed =
\* false and a parse-failure note, which is not the note of a timeout.
C17_MalformedIsParseFailure ==
    (Exchanged /\ frame[Main].value \in {MissingToken, ValueNotNumeric}) =>
        /\ ~frame[Main].result.passed
        /\ frame[Main].result.notes # <<>>
        /\ frame[Main].result.notes[1] \in
              {"Invalid response format: ", "Test execution error: "}
        /\ frame[Main].result.notes # <<"No response from device">>

\* runTest has returned the execution-error note for RESULT:abc:V:PASS
C17_Witness ==
    /\ Exchanged
    /\ frame[Main].value = ValueNotNumeric
    /\ frame[Main].result.notes = <<"Test execution error: ", "stod">>
    /\ frame[Main].result.device_id = "D1"

\* the tokens of a command for device_id and params
CommandTokens(device_id, params) ==
    <<<<"TEST">>, <<device_id>>>> \o [i \in 1..Len(params) |-> <<params[i]>>]

\* C18: the command runTest(deviceId, params) has sent is TEST, deviceId and
\* the parameters in order, joined by ":" (TEST:D1:voltage:5.0 for D1 and
\* voltage, 5.0), and splitting it at ":" gives these tokens back; for the
\* answer RESULT:4.98:V:PASS the result has passed = true, the value 4.98
\* and the units V.
C18_RoundTrip ==
    LET f == frame[Main]
    IN  /\ f.pc = "rt_recv" =>
              LET sent == f.io[Len(f.io)].arg
              IN  /\ f.io[Len(f.io)].fn = "sendCommand"
                  /\ Tokens(sent) = CommandTokens(f.device, f.params)
                  /\ (f.device = "D1" /\ f.params = <<"voltage", "5.0">>) =>
                        sent = <<"TEST", ":", "D1", ":", "voltage", ":", "5.0">>
                  /\ (f.device = "D1" /\ f.params = <<>>) =>
                        sent = <<"TEST", ":", "D1">>
        /\ (Exchanged /\ f.value = <<"RESULT", ":", "4.98", ":", "V", ":", "PASS">>) =>
              /\ f.result.passed
              /\ f.result.measurement_value = <<498>>
              /\ f.result.units = <<"V">>

\* TEST:D1:voltage:5.0 was sent and answered by RESULT:4.98:V:PASS
C18_Witness ==
    /\ Exchanged
    /\ frame[Main].io[2] =
          IoCall("sendCommand", <<"TEST", ":", "D1", ":", "voltage", ":", "5.0">>)
    /\ frame[Main].value = <<"RESULT", ":", "4.98", ":", "V", ":", "PASS">>
    /\ frame[Main].result.passed

\* a call of fn on the transport has returned
PortReturned(fn) == serial.pc = "done" /\ serial.call = fn

\* C19: receiveResponse returns an empty result whenever its timeout ends
\* before a complete line has arrived, also when part of a line was
\* received; its result is non-empty only when a line feed was read.
C19_EmptyUnlessTerminated ==
    PortReturned("receiveResponse") =>
        /\ ~serial.terminated => serial.response = <<>>
        /\ serial.response # <<>> => serial.terminated

\* C20: a connect that fails leaves no descriptor open and isConnected
\* false, whatever connects and disconnects came before; a disconnect on a
\* transport that was never connected returns true and leaves no
\* descriptor open.
C20_NoDescriptorLeft ==
    /\ (PortReturned("connect") /\ ~serial.ret) =>
            serial.open = {} /\ ~serial.connected
    /\ (PortReturned("disconnect") /\ ~serial.wasConnected) =>
            serial.ret /\ serial.open = {}

-----------------------------------------------------------------------------
(* The controller as its callers see it: identifiers, metrics, subscribers *)

\* no call that sets a status has been made on the controller yet
Untouched == committed = <<>> /\ budget = SeqMaxCalls /\ hardware = NoHardware

\* C21: getStatus on a freshly constructed controller, before initialize or
\* any other call, returns Idle.
C21_FreshIsIdle ==
    (Returned(Main, "getStatus") /\ Untouched) => frame[Main].value = <<IDLE>>

\* getStatus was the first call on the controller, and it answered Idle
C21_Witness ==
    /\ Returned(Main, "getStatus")
    /\ Untouched
    /\ ~statusCallback
    /\ frame[Main].value = <<IDLE>>

\* C22: every runTest call, on every path, returns a TestResult whose
\* device_id is the device id the caller passed and whose test_id is not
\* empty.
C22_ResultIdentified ==
    Returned(Main, "runTest") =>
        /\ frame[Main].result.device_id = frame[Main].device
        /\ frame[Main].device \in DeviceIds
        /\ frame[Main].result.test_id # <<>>

\* a test of device D2 that went through the whole exchange and passed
C22_Witness ==
    /\ Exchanged
    /\ frame[Main].device = "D2"
    /\ frame[Main].result.device_id = "D2"
    /\ frame[Main].result.passed
    /\ frame[Main].result.test_id = <<"TEST_", 0>>

\* C23: any two distinct runTest calls on one controller return TestResults
\* with different test_id values, also when they are made back to back or
\* concurrently.
C23_TestIdUnique ==
    \A t, u \in Threads :
        (t # u /\ Returned(t, "runTest") /\ Returned(u, "runTest")) =>
            frame[t].result.test_id # frame[u].result.test_id

\* the names in a list of metrics
NamesOf(metrics) == {metrics[i] : i \in DOMAIN metrics}

\* C24: getHealthMetrics returns the same non-empty set of metric names on
\* every call, in every status and with or without initialize, and it changes
\* neither status nor the last error.
C24_MetricsConstant ==
    /\ [](Returned(Main, "getHealthMetrics") =>
             /\ NamesOf(frame[Main].value) =
                  {"Temperature", "Vibration", "Power_Consumption",
                   "Uptime_Hours", "Error_Rate"}
             /\ Len(frame[Main].value) = 5)
    /\ [][Enters(Main, "getHealthMetrics") =>
             (status' = status /\ lastError' = lastError)]_vars

\* the metrics read from a controller in status Error
C24_Witness ==
    /\ Returned(Main, "getHealthMetrics")
    /\ status = ERROR
    /\ hardware.present
    /\ Len(frame[Main].value) = 5

\* what a single caller's runTest returns, told from the status it found,
\* the transport calls it made and the response it read
ExpectedResult(f) ==
    LET blank == [NoResult EXCEPT !.device_id = f.device,
                                  !.test_id = f.result.test_id,
                                  !.timestamp = f.result.timestamp]
        failed(note) == [blank EXCEPT !.passed = FALSE, !.notes = <<note>>]
    IN  CASE f.seen # RUNNING -> failed("Equipment not in running state")
          [] f.seen = RUNNING /\ Len(f.io) <= 1 -> failed("Hardware not connected")
          [] f.seen = RUNNING /\ Len(f.io) = 2 -> failed("Failed to send test command")
          [] f.seen = RUNNING /\ Len(f.io) = 3 /\ f.value = <<>> ->
                failed("No response from device")
          [] OTHER -> ParseResponse(blank, f.value)

\* C25: having no subscriber is not an error. What a call returns and the
\* status it leaves are told by the call, the status it found, the transport
\* and the device's answer alone, so they are the same for a controller with
\* and without a status callback.
C25_SubscriberIrrelevant ==
    LET f == frame[Main]
        connected == hardware.present /\ hardware.connected
        calOk == connected /\ f.value \in CalOkResponses
        transition(allowed, target) ==
            /\ f.ret = allowed
            /\ status = (IF allowed THEN target ELSE f.seen)
    IN  f.pc = "done" =>
          CASE f.call = "initialize" -> f.ret = connected /\ status = IDLE
            [] f.call = "start" -> transition(f.seen \in {IDLE, PAUSED}, RUNNING)
            [] f.call = "stop" -> f.ret /\ status = IDLE
            [] f.call = "pause" -> transition(f.seen = RUNNING, PAUSED)
            [] f.call = "resume" -> transition(f.seen = PAUSED, RUNNING)
            [] f.call = "runTest" -> status = f.seen /\ f.result = ExpectedResult(f)
            [] f.call = "calibrate" ->
                  IF f.seen = IDLE
                  THEN f.ret = calOk /\ status = (IF calOk THEN IDLE ELSE ERROR)
                  ELSE ~f.ret /\ status = f.seen
            [] OTHER -> TRUE

\* a controller that never had a subscriber was started and calibrated
C25_Witness ==
    /\ ~statusCallback
    /\ missed
    /\ Returned(Main, "calibrate")
    /\ frame[Main].ret
    /\ status = IDLE
    /\ Len(committed) >= 4

\* C26: whenever calibrate returns false, for a precondition violation as
\* well as for a failed exchange, the last error is a non-empty message
\* recorded by that call.
C26_CalibrateFailureRecorded ==
    (Returned(Main, "calibrate") /\ ~frame[Main].ret) =>
        /\ lastError # <<>>
        /\ frame[Main].seen # IDLE => lastError = MsgCalibrateRejected

\* initialize could not connect: the controller is in what its status
\* message calls simulation mode
SimulationMode == hardware.present /\ ~hardware.connected

\* C27: in simulation mode a runTest made in status Running returns a result
\* populated from simulated data, not a failure caused by the missing
\* hardware.
C27_SimulatedResult ==
    (Returned(Main, "runTest") /\ frame[Main].seen = RUNNING /\ SimulationMode) =>
        /\ frame[Main].result.notes # <<"Hardware not connected">>
        /\ frame[Main].result.measurement_value # <<>>

\* C28: with a status callback registered before initialize, every initialize
\* call delivers exactly one notification, carrying Idle, before it returns,
\* when the connection succeeds and when it fails. (A single caller's
\* callback that is registered when initialize has returned was registered
\* before the call.)
C28_InitializeNotifiesOnce ==
    (Returned(Main, "initialize") /\ statusCallback) =>
        /\ frame[Main].wrote = <<IDLE>>
        /\ frame[Main].cbs = <<IDLE>>
        /\ delivered # <<>>
        /\ delivered[Len(delivered)].status = IDLE

\* an initialize that was not the first call failed to connect and notified
\* Idle, once, with the simulation-mode message
C28_Witness ==
    /\ Returned(Main, "initialize")
    /\ ~frame[Main].ret
    /\ frame[Main].cbs = <<IDLE>>
    /\ Len(delivered) >= 2
    /\ delivered[Len(delivered)] =
          [status |-> IDLE, message |-> "Equipment initialized (simulation mode)"]
    /\ delivered[Len(delivered) - 1].status # IDLE

\* thread t is in calibrate's last setStatus, about to write Idle or Error
ClosingCalibration(t) ==
    /\ frame[t].call = "calibrate"
    /\ frame[t].pc = "write"
    /\ frame[t].newStatus \in {IDLE, ERROR}

\* C29: calibrate's closing transition starts from Maintenance: under any
\* interleaving with the calls of other threads, the status that calibrate's
\* final Idle or Error replaces is Maintenance.
C29_ClosesFromMaintenance ==
    \A t \in Threads : ClosingCalibration(t) => status = MAINTENANCE

\* C30: each exchange is paired with its own request: the response that a
\* runTest or calibrate call classifies is the device's reply to the command
\* that this same call sent, also when an earlier exchange timed out and its
\* reply arrives late.
C30_ReplyToOwnRequest ==
    \A t \in Threads :
        LET f == frame[t]
        IN  (f.pc = "done" /\ f.call \in {"runTest", "calibrate"} /\ f.answers # 0) =>
                f.answers = f.request

-----------------------------------------------------------------------------
(* Recovery, frame conditions and the error string *)

\* thread t is between calibrate's check of status (387) and the return
\* from its last setStatus (403, 407)
InCalibration(t) ==
    /\ frame[t].call = "calibrate"
    /\ frame[t].pc \notin {"idle", "done", "fault"}

\* C31: at most one calibration is in flight at any time: no two threads are
\* at once between calibrate's Idle check and its final status commit.
C31_OneCalibration ==
    \A t, u \in Threads : (InCalibration(t) /\ InCalibration(u)) => t = u

\* what the calls of a single caller do while status is Error, and what stop
\* does in every status
RefusedInError ==
    LET f == frame[Main]
    IN  /\ (f.pc = "done" /\ f.seen = ERROR
            /\ f.call \in {"start", "pause", "resume", "calibrate"}) =>
               (~f.ret /\ status = ERROR)
        /\ (Returned(Main, "runTest") /\ f.seen = ERROR) =>
               (~f.result.passed /\ status = ERROR)
        /\ Returned(Main, "stop") => (f.ret /\ status = IDLE /\ f.seen # "none")
        /\ (Returned(Main, "start") /\ f.seen = IDLE) => (f.ret /\ status = RUNNING)

\* the calls whose setStatus is about to replace Error by another status
LeavingError ==
    {frame[t].call : t \in {u \in Threads : /\ frame[u].pc = "write"
                                            /\ status = ERROR
                                            /\ frame[u].newStatus # ERROR}}

\* the claim as stated: Error is left through stop and through nothing else
C32_Original == RefusedInError /\ LeavingError \subseteq {"stop"}

\* C32: Error is left only through stop or initialize: while status is Error,
\* start, pause, resume and calibrate return false and leave status Error,
\* runTest returns passed=false, and stop returns true and sets Idle, after
\* which start succeeds; a single stop brings the controller back to Idle
\* from every status. initialize commits Idle in every status, Error
\* included.
C32_ErrorRecovery == RefusedInError /\ LeavingError \subseteq {"stop", "initialize"}

\* a failed calibration, then stop, then a start that succeeded
C32_Witness ==
    /\ Returned(Main, "start")
    /\ frame[Main].ret
    /\ committed = <<MAINTENANCE, ERROR, IDLE, RUNNING>>
    /\ ~hardware.present

\* C33: stop called while status is already Idle is a no-op: it returns
\* true, status stays Idle, the last error is unchanged, nothing is sent to
\* the transport and no status notification is delivered.
C33_StopInIdleNoOp ==
    /\ []((Returned(Main, "stop") /\ frame[Main].seen = IDLE) =>
             /\ frame[Main].ret
             /\ status = IDLE
             /\ frame[Main].io = <<>>
             /\ frame[Main].wrote = <<>>
             /\ frame[Main].cbs = <<>>)
    /\ [][(Enters(Main, "stop") /\ status = IDLE) =>
             /\ frame'[Main].pc = "done"
             /\ status' = status
             /\ lastError' = lastError
             /\ hardware' = hardware
             /\ committed' = committed
             /\ delivered' = delivered]_vars

\* stop returned from a controller that was Idle, had a subscriber and had
\* a failure on record
C33_Witness ==
    /\ Returned(Main, "stop")
    /\ frame[Main].seen = IDLE
    /\ frame[Main].ret
    /\ statusCallback
    /\ lastError # <<>>
    /\ committed # <<>>

\* this step is a step of the main thread's runTest
RunTestStep == frame'[Main] # frame[Main] /\ frame'[Main].call = "runTest"

\* C34: runTest never changes controller state: on every path the status,
\* the last error and the registered callback are the same after the call
\* as before it, and no status notification is delivered.
C34_RunTestFrame ==
    /\ [](Returned(Main, "runTest") =>
             (frame[Main].wrote = <<>> /\ frame[Main].cbs = <<>>))
    /\ [][RunTestStep =>
             /\ status' = status
             /\ lastError' = lastError
             /\ statusCallback' = statusCallback
             /\ committed' = committed
             /\ delivered' = delivered]_vars

\* a test that passed on a controller with a subscriber and a failure on
\* record
C34_Witness ==
    /\ Exchanged
    /\ frame[Main].result.passed
    /\ status = RUNNING
    /\ statusCallback
    /\ lastError # <<>>

\* thread t is in the setStatus of calibrate's failure branch (407): its
\* calibrate found no connected transport or read a response without CAL_OK
CalibrationFailing(t) ==
    /\ frame[t].call = "calibrate"
    /\ frame[t].newStatus = ERROR
    /\ frame[t].message = "Calibration failed"
    /\ frame[t].cont = "return_false"
    /\ frame[t].value \notin CalOkResponses

\* thread t writes the status in this step
Commits(t) == frame[t].pc = "write" /\ frame'[t].pc = "notify"

\* C35: status Error is entered only by a calibrate call that did not
\* obtain CAL_OK: every commit of Error is made by calibrate's failure
\* branch, and start, stop, pause, resume, runTest, getHealthMetrics and
\* initialize never set Error.
C35_ErrorOnlyFromCalibrate ==
    [][\A t \in Threads :
          (Commits(t) /\ status' = ERROR) => CalibrationFailing(t)]_vars

\* a calibrate that read a response without CAL_OK has returned false and
\* left status Error
C35_Witness ==
    \E t \in Threads :
        /\ Returned(t, "calibrate")
        /\ ~frame[t].ret
        /\ frame[t].value = <<"CAL_FAIL">>
        /\ frame[t].wrote = <<MAINTENANCE, ERROR>>
        /\ status = ERROR

\* thread t is in setStatus between the write of status and the return of
\* the callback (228-230)
InCallback(t) == frame[t].pc = "notify"

\* C36: the status callback runs while the notifying thread holds the state
\* mutex: during a callback invocation no other thread can commit a status
\* or complete getStatus, and the status handed to the callback is the
\* controller's status for as long as the callback runs.
C36_CallbackUnderMutex ==
    \A t \in Threads :
        InCallback(t) =>
            /\ statusMutex = t
            /\ status = frame[t].newStatus
            /\ \A u \in Threads \ {t} :
                  /\ ~ENABLED SetStatusWrite(u)
                  /\ ~ENABLED GetStatus(u)
                  /\ ~InCallback(u)

\* a callback is about to run while another thread waits for the mutex in
\* its own setStatus
C36_Witness ==
    \E t, u \in Threads :
        /\ InCallback(t)
        /\ statusCallback
        /\ frame[u].pc = "lock"
        /\ frame[u].newStatus # status

\* in this step a call of the main thread fails: it returns false, or goes
\* into the setStatus after which it returns false
FailingStep ==
    /\ frame'[Main] # frame[Main]
    /\ frame'[Main].call \in {"initialize", "start", "pause", "resume", "calibrate"}
    /\ \/ frame'[Main].pc = "done" /\ ~frame'[Main].ret
       \/ frame'[Main].cont = "return_false"

\* C37: the last error is only ever written by a failing operation and is
\* never cleared: a call of start, stop, pause, resume, calibrate or
\* initialize that returns true, and every getStatus, getHealthMetrics and
\* runTest, leaves the value of getLastError as it was.
C37_LastErrorKept ==
    [][lastError' # lastError => (FailingStep /\ lastError' # <<>>)]_vars

\* a pause was refused in Idle; then start and stop succeeded, and the
\* last error still is the refusal of pause
C37_Witness ==
    /\ Returned(Main, "stop")
    /\ frame[Main].ret
    /\ committed = <<RUNNING, IDLE>>
    /\ lastError = MsgPauseRejected

\* the message initialize records when connect fails (258)
IsConnectFailure(message) ==
    Len(message) = 2 /\ message[1] = "Failed to connect to device on port "

\* C38: after any sequence of operations that ends with an initialize call,
\* status is Idle in the connected and in the degraded outcome, and
\* getLastError holds a connect-failure message if and only if that
\* initialize failed to connect.
C38_LastErrorTellsOutcome ==
    Returned(Main, "initialize") =>
        /\ status = IDLE
        /\ IsConnectFailure(lastError) <=> ~frame[Main].ret

\* initialize was never called: the controller holds no transport object
Uninitialized == ~hardware.present

CsCalibrating(t) == cs.thread[t].pc \in {"cs_sleep", "cs_write", "cs_read"}

\* C40: in the C# controller a read of the Status property from another
\* thread is never blocked by an in-flight Calibrate: while a calibration is
\* in its settling delay or its serial exchange, Status can be read and
\* returns Maintenance.
C40_StatusNotBlocked ==
    \A t \in Threads :
        CsCalibrating(t) =>
            /\ cs.status = MAINTENANCE
            /\ \A u \in Threads \ {t} : CsAtRest(u) => ENABLED CsGetStatus(u)

====
